---- MODULE Spec2Model ----
(***************************************************************************)
(* Model of checks/test_lesson.py: the quiz-section check of the lesson    *)
(* documents.  A lesson is parsed by commonmark, the tree is flattened by  *)
(* commonmark.dumpJSON, and test_lesson looks for the '?---?' marker,      *)
(* removes code blocks and empty paragraphs, validates the headings,       *)
(* groups the answer options per question and applies the answer rules.    *)
(*                                                                         *)
(* Python lists are modelled as sequences; the indices the code computes   *)
(* (qsi_index, heading_indices, item_indices) keep Python's 0-based values *)
(* because the code tests them for truthiness.  The except clauses of      *)
(* test_lesson (a file that vanished after glob, a node without the key    *)
(* read) end the run with an assertion like any other failure and are not  *)
(* modelled: the documents drawn here raise neither.                       *)
(***************************************************************************)
EXTENDS Integers, Sequences, FiniteSets, TLC

VARIABLES pc, nFiles, fileNo, doc, json_objects, qsi_index, content_objects,
          groups, gi, result, stages

vars == <<pc, nFiles, fileNo, doc, json_objects, qsi_index, content_objects,
          groups, gi, result, stages>>

\* ---------------------------------------------------------------- bounds
MaxBlocks == 5
MaxFiles == 2
MaxOpts == 3

\* ------------------------------------------------------------- constants
\* Python's None for qsi_index (an index is >= 0).
None == -1

QUESTION_SECTION_INDICATOR == <<"?", "-", "-", "-", "?">>

PROSE == <<"t">>

\* Diagnostics (the assertion messages of test_lesson.py).
MULTIPLE_INDICATORS == "Multiple question section indicators"
INVALID_INDICATION == "Invalid question indication (multiple '#')"
WITHOUT_OPTIONS == "Found a question without answer options"
BOTH_KINDS == "Found both single- and multi- answer options"
NO_OPTIONS == "Found no answer options in the question"
MULTIPLE_CHECKED == "Multiple answers checked in the single answer question"
NONE_CHECKED_SINGLE == "No answer checked in the single answer question"
NONE_CHECKED_MULTI == "No answer checked in the multi answer question"
OK == "ok"

\* ------------------------------------------------------- sequence helpers
SeqsUpTo(S, n) == UNION {[1..k -> S] : k \in 0..n}

IsPrefix(p, s) == Len(p) <= Len(s) /\ SubSeq(s, 1, Len(p)) = p

\* Python's seq[i] and seq[b:e] with 0-based indices.
At(s, i) == s[i + 1]
Slice(s, b, e) == SubSeq(s, b + 1, e)

\* ------------------------------------------------ the parsed document
\* The block tree commonmark.Parser().parse returns for a lesson, restricted
\* to the blocks a lesson's quiz section is written with.
Paragraph(lits) ==
  [t |-> "paragraph", level |-> 0, lits |-> lits, bullet |-> "", boxes |-> <<>>,
   closed |-> TRUE]
Heading(level) ==
  [t |-> "heading", level |-> level, lits |-> <<PROSE>>, bullet |-> "",
   boxes |-> <<>>, closed |-> TRUE]
\* A fenced code block; closed = FALSE when its opening fence has no closing
\* fence, and the block then runs to the end of the document.
CodeBlock(closed) ==
  [t |-> "code_block", level |-> 0, lits |-> <<>>, bullet |-> "", boxes |-> <<>>,
   closed |-> closed]
\* A tight bullet list; boxes[i] is what item i has between its brackets
\* (" ", "x", "X"), or "none" for an item that is no checkbox.
BulletList(bullet, boxes) ==
  [t |-> "list", level |-> 0, lits |-> <<>>, bullet |-> bullet, boxes |-> boxes,
   closed |-> TRUE]

\* ------------------------------------------------ commonmark.dumpJSON
Rep(type, literal, list_type, bullet_char, container) ==
  [type |-> type, literal |-> literal, list_type |-> list_type,
   bullet_char |-> bullet_char, has_children |-> container, children |-> <<>>]

Ev(rep, entered) == [rep |-> rep, entered |-> entered]

Container(type) == Rep(type, <<>>, "", "", TRUE)
TextNode(lit) == Rep("text", lit, "", "", FALSE)
ListNode(type, bullet) == Rep(type, <<>>, "bullet", bullet, TRUE)

\* The inline nodes of a paragraph's lines: one text per line, a softbreak
\* between two lines.
RECURSIVE ParagraphInlines(_)
ParagraphInlines(lits) ==
  IF lits = <<>> THEN <<>>
  ELSE <<Ev(TextNode(Head(lits)), TRUE)>>
       \o (IF Tail(lits) = <<>> THEN <<>>
           ELSE <<Ev(Rep("softbreak", <<>>, "", "", FALSE), TRUE)>>)
       \o ParagraphInlines(Tail(lits))

\* The inline nodes of an answer item "[x] a": the brackets of a checkbox are
\* no link, so the inline parser leaves them as text nodes of their own.
ItemInlines(box) ==
  IF box = "none" THEN <<Ev(TextNode(<<"a">>), TRUE)>>
  ELSE <<Ev(TextNode(<<"[">>), TRUE), Ev(TextNode(<<box>>), TRUE),
         Ev(TextNode(<<"]">>), TRUE), Ev(TextNode(<<" ", "a">>), TRUE)>>

RECURSIVE ItemEvents(_, _)
ItemEvents(bullet, boxes) ==
  IF boxes = <<>> THEN <<>>
  ELSE <<Ev(ListNode("item", bullet), TRUE), Ev(Container("paragraph"), TRUE)>>
       \o ItemInlines(Head(boxes))
       \o <<Ev(Container("paragraph"), FALSE), Ev(ListNode("item", bullet), FALSE)>>
       \o ItemEvents(bullet, Tail(boxes))

\* The walker's events of one block: a container is entered and left, a leaf
\* (text, softbreak, code_block) is entered only.
BlockEvents(b) ==
  CASE b.t = "paragraph" ->
         <<Ev(Container("paragraph"), TRUE)>> \o ParagraphInlines(b.lits)
         \o <<Ev(Container("paragraph"), FALSE)>>
    [] b.t = "heading" ->
         <<Ev(Container("heading"), TRUE)>> \o ParagraphInlines(b.lits)
         \o <<Ev(Container("heading"), FALSE)>>
    [] b.t = "code_block" -> <<Ev(Rep("code_block", <<"c">>, "", "", FALSE), TRUE)>>
    [] b.t = "list" ->
         <<Ev(ListNode("list", b.bullet), TRUE)>> \o ItemEvents(b.bullet, b.boxes)
         \o <<Ev(ListNode("list", b.bullet), FALSE)>>

RECURSIVE BlocksEvents(_)
BlocksEvents(bs) ==
  IF bs = <<>> THEN <<>> ELSE BlockEvents(Head(bs)) \o BlocksEvents(Tail(bs))

Walker(d) ==
  <<Ev(Container("document"), TRUE)>> \o BlocksEvents(d)
  \o <<Ev(Container("document"), FALSE)>>

\* dump.prepare: a node that is entered is appended to the children of the
\* last element of the list; the first node, and every node that is left,
\* becomes a new element of the list.
RECURSIVE Prepare(_, _)
Prepare(a, evs) ==
  IF evs = <<>> THEN a
  ELSE LET e == Head(evs)
           n == Len(a)
       IN IF e.entered /\ n > 0
          THEN Prepare([a EXCEPT ![n].children = Append(@, e.rep)], Tail(evs))
          ELSE Prepare(Append(a, e.rep), Tail(evs))

DumpJSON(d) == Prepare(<<>>, Walker(d))

\* ------------------------------------------------ test_lesson.py
is_text(x) == x.type = "text"

\* A slip of is_qsi: any text that is not empty counts as the marker.
is_qsi_any(x) == x.literal # <<>>

is_qsi(x) == x.literal = QUESTION_SECTION_INDICATOR

\* Python's truth value of qsi_index: None and 0 are both false.
Truthy(i) == i # None /\ i # 0

\* sum(map(lambda x: 1 if is_qsi(x) else 0, filter(is_text, children)))
RECURSIVE partial_sum(_)
partial_sum(children) ==
  IF children = <<>> THEN 0
  ELSE (IF is_text(Head(children)) /\ is_qsi(Head(children)) THEN 1 ELSE 0)
       + partial_sum(Tail(children))

\* The loop of derive_question_section_indicator_index from index i on, with
\* qsi the value of qsi_index so far; failed when the assertion is raised.
RECURSIVE derive_qsi_loop(_, _, _)
derive_qsi_loop(objs, i, qsi) ==
  IF i >= Len(objs) THEN [failed |-> FALSE, qsi_index |-> qsi]
  ELSE LET n == partial_sum(At(objs, i).children)
       IN IF n > 1 \/ (n = 1 /\ Truthy(qsi))
          THEN [failed |-> TRUE, qsi_index |-> qsi]
          ELSE IF n = 1 THEN derive_qsi_loop(objs, i + 1, i)
          ELSE derive_qsi_loop(objs, i + 1, qsi)

derive_question_section_indicator_index(objs) == derive_qsi_loop(objs, 0, None)

\* filter_object_recursively on an element of the dumped list: its children
\* are filtered; the children hold no children of their own (dumpJSON never
\* fills them), so the recursive call leaves each of them as it is.
RECURSIVE keep_children(_, _)
keep_children(children, drop_code) ==
  IF children = <<>> THEN <<>>
  ELSE LET v == Head(children)
           keep == IF drop_code THEN v.type # "code_block"
                   ELSE v.type # "paragraph"
                        \/ (v.type = "paragraph" /\ v.children # <<>>)
       IN (IF keep THEN <<v>> ELSE <<>>) \o keep_children(Tail(children), drop_code)

filter_object_recursively(content_object, drop_code) ==
  IF content_object.has_children
  THEN [content_object EXCEPT !.children = keep_children(@, drop_code)]
  ELSE content_object

remove_code_blocks(content_object) == filter_object_recursively(content_object, TRUE)

is_not_empty_node(o) ==
  o.type # "paragraph" \/ (o.type = "paragraph" /\ o.children # <<>>)

RECURSIVE remove_empty_paragraphs(_)
remove_empty_paragraphs(content) ==
  IF content = <<>> THEN <<>>
  ELSE LET r == filter_object_recursively(Head(content), FALSE)
       IN (IF is_not_empty_node(r) THEN <<r>> ELSE <<>>)
          \o remove_empty_paragraphs(Tail(content))

RECURSIVE map_remove_code_blocks(_)
map_remove_code_blocks(content) ==
  IF content = <<>> THEN <<>>
  ELSE <<remove_code_blocks(Head(content))>> \o map_remove_code_blocks(Tail(content))

has_child_of_type(object, type) ==
  \E k \in 1..Len(object.children) : object.children[k].type = type

\* TRUE when validate_question_indicators raises.
validate_question_indicators(content) ==
  \E k \in 1..Len(content) :
    content[k].type = "heading" /\ has_child_of_type(content[k], "heading")

is_item_node(object) ==
  \E k \in 1..Len(object.children) : object.children[k].list_type = "bullet"

is_heading_node(object) == has_child_of_type(object, "heading")

\* [i for i, v in enumerate(content[from:]) if P(v)], as 0-based indices.
RECURSIVE heading_indices_from(_, _)
heading_indices_from(content, i) ==
  IF i >= Len(content) THEN <<>>
  ELSE (IF is_heading_node(At(content, i)) THEN <<i>> ELSE <<>>)
       \o heading_indices_from(content, i + 1)

RECURSIVE item_indices_in(_, _, _)
item_indices_in(content, i, end) ==
  IF i >= end THEN <<>>
  ELSE (IF is_item_node(At(content, i)) THEN <<i>> ELSE <<>>)
       \o item_indices_in(content, i + 1, end)

\* A slip of the loop below: the assertion on a question without answer
\* options is left out, and the question's empty group is kept.
RECURSIVE derive_groups_loop_lazy(_, _, _, _)
derive_groups_loop_lazy(content, heading_indices, i, acc) ==
  LET headings_len == Len(heading_indices)
  IN IF i >= headings_len THEN [failed |-> FALSE, question |-> None, groups |-> acc]
     ELSE LET beg == At(heading_indices, i) + 1
              end == IF i + 1 < headings_len THEN At(heading_indices, i + 1)
                     ELSE Len(content)
          IN derive_groups_loop_lazy(content, heading_indices, i + 1,
                                     Append(acc, item_indices_in(content, beg, end)))

\* The loop of derive_question_answer_options_groups from heading i on;
\* failed (at question `question`) when a question has no answer options.
RECURSIVE derive_groups_loop(_, _, _, _)
derive_groups_loop(content, heading_indices, i, acc) ==
  LET headings_len == Len(heading_indices)
  IN IF i >= headings_len THEN [failed |-> FALSE, question |-> None, groups |-> acc]
     ELSE LET beg == At(heading_indices, i) + 1
              end == IF i + 1 < headings_len THEN At(heading_indices, i + 1)
                     ELSE Len(content)
              item_indices == item_indices_in(content, beg, end)
          IN IF item_indices = <<>>
             THEN [failed |-> TRUE, question |-> i, groups |-> acc]
             ELSE derive_groups_loop(content, heading_indices, i + 1,
                                     Append(acc, item_indices))

derive_question_answer_options_groups(content) ==
  derive_groups_loop(content, heading_indices_from(content, 0), 0, <<>>)

\* get_bullet_char: the bullet_char of the first item or list among the children.
RECURSIVE get_bullet_char(_)
get_bullet_char(children) ==
  IF Head(children).type \in {"item", "list"} THEN Head(children).bullet_char
  ELSE get_bullet_char(Tail(children))

\* "".join(map(lambda x: x["literal"], filter(is_text, children)))
RECURSIVE join_text_literals(_)
join_text_literals(children) ==
  IF children = <<>> THEN <<>>
  ELSE (IF is_text(Head(children)) THEN Head(children).literal ELSE <<>>)
       \o join_text_literals(Tail(children))

\* " ".join(write_text(x)): the bullet character, a space, the text.
answer_option_text(x) ==
  <<get_bullet_char(x.children)>> \o <<" ">> \o join_text_literals(x.children)

RECURSIVE answer_options_texts(_, _)
answer_options_texts(content, group) ==
  IF group = <<>> THEN <<>>
  ELSE <<answer_option_text(At(content, Head(group)))>>
       \o answer_options_texts(content, Tail(group))

\* len(list(filter(lambda x: re.match(r"^<bullet> \[<one of boxes>]", x), texts)))
RECURSIVE count_matches(_, _, _)
count_matches(texts, bullet, boxes) ==
  IF texts = <<>> THEN 0
  ELSE (IF \E b \in boxes : IsPrefix(<<bullet, " ", "[", b, "]">>, Head(texts))
        THEN 1 ELSE 0)
       + count_matches(Tail(texts), bullet, boxes)

AnswerOptions(unchecked, checked) ==
  [checked_count |-> checked, unchecked_count |-> unchecked,
   all_count |-> unchecked + checked]

\* A slip of parse_single_answer_options: only a lower-case x is a check.
parse_single_answer_options_lower(texts) ==
  AnswerOptions(count_matches(texts, "-", {" "}), count_matches(texts, "-", {"x"}))

parse_single_answer_options(texts) ==
  AnswerOptions(count_matches(texts, "-", {" "}), count_matches(texts, "-", {"x", "X"}))

parse_multi_answer_options(texts) ==
  AnswerOptions(count_matches(texts, "*", {" "}), count_matches(texts, "*", {"x", "X"}))

\* A slip of the chain below: the checks on the single-answer options come
\* before the check that the two kinds are not mixed.
check_answer_rules_reordered(single, multi) ==
  IF single.checked_count > 1 THEN MULTIPLE_CHECKED
  ELSE IF single.all_count > 0 /\ single.checked_count = 0 THEN NONE_CHECKED_SINGLE
  ELSE IF single.all_count > 0 /\ multi.all_count > 0 THEN BOTH_KINDS
  ELSE IF single.all_count = 0 /\ multi.all_count = 0 THEN NO_OPTIONS
  ELSE IF multi.all_count > 0 /\ multi.checked_count = 0 THEN NONE_CHECKED_MULTI
  ELSE OK

\* The chain of assertions of validate_question_answers: the message of the
\* first one that is raised, OK when none is.
check_answer_rules(single, multi) ==
  IF single.all_count > 0 /\ multi.all_count > 0 THEN BOTH_KINDS
  ELSE IF single.all_count = 0 /\ multi.all_count = 0 THEN NO_OPTIONS
  ELSE IF single.checked_count > 1 THEN MULTIPLE_CHECKED
  ELSE IF single.all_count > 0 /\ single.checked_count = 0 THEN NONE_CHECKED_SINGLE
  ELSE IF multi.all_count > 0 /\ multi.checked_count = 0 THEN NONE_CHECKED_MULTI
  ELSE OK

validate_question_answers(content, group) ==
  LET texts == answer_options_texts(content, group)
  IN check_answer_rules(parse_single_answer_options(texts),
                        parse_multi_answer_options(texts))

\* ------------------------------------------------ the lesson files
\* The blocks the lesson documents are drawn from.
Blocks ==
  {Paragraph(<<PROSE>>), Paragraph(<<QUESTION_SECTION_INDICATOR>>),
   Paragraph(<<QUESTION_SECTION_INDICATOR, QUESTION_SECTION_INDICATOR>>),
   Heading(1), Heading(2), CodeBlock(TRUE), CodeBlock(FALSE)}
  \cup {BulletList("-", <<" ">>), BulletList("*", <<"x">>)}

\* What the parser can return: a fence left open swallows the rest of the
\* document, and two lists that follow each other differ in their bullet
\* (items with the same bullet are one list).
WellFormedTree(d) ==
  /\ \A k \in 1..Len(d) : (d[k].t = "code_block" /\ ~d[k].closed) => k = Len(d)
  /\ \A k \in 1..(Len(d) - 1) :
       (d[k].t = "list" /\ d[k + 1].t = "list") => d[k].bullet # d[k + 1].bullet

Docs == {d \in SeqsUpTo(Blocks, MaxBlocks) : WellFormedTree(d)}

\* One question's answer options, as written: a bullet and a checkbox each.
Options == [bullet : {"-", "*", "+"}, box : {" ", "x", "X", "none"}]

OptionSeqs == SeqsUpTo(Options, MaxOpts) \ {<<>>}

\* The lists the parser makes of consecutive option lines: a run of lines
\* with the same bullet is one list.
RECURSIVE ListsOf(_)
ListsOf(opts) ==
  IF opts = <<>> THEN <<>>
  ELSE LET rest == ListsOf(Tail(opts))
           o == Head(opts)
       IN IF rest # <<>> /\ Head(rest).bullet = o.bullet
          THEN <<BulletList(o.bullet, <<o.box>> \o Head(rest).boxes)>> \o Tail(rest)
          ELSE <<BulletList(o.bullet, <<o.box>>)>> \o rest

\* A lesson with a quiz section of one question with the options opts.
QuizDoc(opts) ==
  <<Paragraph(<<PROSE>>), Paragraph(<<QUESTION_SECTION_INDICATOR>>), Heading(1)>>
  \o ListsOf(opts)

\* ------------------------------------------------ test_lesson
NoResult == [diag |-> "", question |-> None]

Failed(diag, question) == [diag |-> diag, question |-> question]

\* The state before the loop of test_lesson, glob having found n files.
Started(n) ==
  /\ pc = "start"
  /\ nFiles = n
  /\ fileNo = 0
  /\ doc = <<>>
  /\ json_objects = <<>>
  /\ qsi_index = None
  /\ content_objects = <<>>
  /\ groups = <<>>
  /\ gi = 0
  /\ result = NoResult
  /\ stages = {}

\* The check of one lesson file.
Init == Started(1)

\* for md in mds: the next file, or the end of the loop.
NextFile ==
  /\ pc \in {"start", "passed"}
  /\ IF fileNo < nFiles
     THEN pc' = "read" /\ fileNo' = fileNo + 1
     ELSE pc' = "done" /\ fileNo' = fileNo
  /\ doc' = <<>>
  /\ json_objects' = <<>>
  /\ qsi_index' = None
  /\ content_objects' = <<>>
  /\ groups' = <<>>
  /\ gi' = 0
  /\ stages' = {}
  /\ UNCHANGED <<nFiles, result>>

\* lesson_text = Path(md).read_text(); ast = parse; json_objects = dumpJSON
ReadParse ==
  /\ pc = "read"
  /\ \E d \in Docs :
       /\ doc' = d
       /\ json_objects' = DumpJSON(d)
  /\ pc' = "derive_qsi"
  /\ stages' = {"parse"}
  /\ UNCHANGED <<nFiles, fileNo, qsi_index, content_objects, groups, gi, result>>

\* qsi_index = derive_question_section_indicator_index(md, json_objects);
\* if qsi_index: ...
DeriveQsi ==
  /\ pc = "derive_qsi"
  /\ LET r == derive_question_section_indicator_index(json_objects)
     IN IF r.failed
        THEN /\ pc' = "failed"
             /\ result' = Failed(MULTIPLE_INDICATORS, None)
             /\ UNCHANGED qsi_index
        ELSE /\ qsi_index' = r.qsi_index
             /\ pc' = IF Truthy(r.qsi_index) THEN "validate" ELSE "passed"
             /\ UNCHANGED result
  /\ stages' = stages \cup {"derive_qsi"}
  /\ UNCHANGED <<nFiles, fileNo, doc, json_objects, content_objects, groups, gi>>

\* question_section_content = json_objects[qsi_index + 1:], and the first two
\* lines of validate_question_section_content.
Sanitize ==
  /\ pc = "validate"
  /\ content_objects' =
       remove_empty_paragraphs(map_remove_code_blocks(
         Slice(json_objects, qsi_index + 1, Len(json_objects))))
  /\ pc' = "indicators"
  /\ stages' = stages \cup {"remove_code_blocks", "remove_empty_paragraphs"}
  /\ UNCHANGED <<nFiles, fileNo, doc, json_objects, qsi_index, groups, gi, result>>

ValidateIndicators ==
  /\ pc = "indicators"
  /\ IF validate_question_indicators(content_objects)
     THEN pc' = "failed" /\ result' = Failed(INVALID_INDICATION, None)
     ELSE pc' = "groups" /\ UNCHANGED result
  /\ stages' = stages \cup {"validate_question_indicators"}
  /\ UNCHANGED <<nFiles, fileNo, doc, json_objects, qsi_index, content_objects,
                 groups, gi>>

DeriveGroups ==
  /\ pc = "groups"
  /\ LET r == derive_question_answer_options_groups(content_objects)
     IN IF r.failed
        THEN /\ pc' = "failed"
             /\ result' = Failed(WITHOUT_OPTIONS, r.question)
             /\ UNCHANGED groups
        ELSE /\ groups' = r.groups
             /\ pc' = IF r.groups = <<>> THEN "passed" ELSE "answers"
             /\ UNCHANGED result
  /\ stages' = stages \cup {"derive_groups"}
  /\ UNCHANGED <<nFiles, fileNo, doc, json_objects, qsi_index, content_objects, gi>>

\* One turn of: for group in question_answer_options_groups:
\*                validate_question_answers(...)
ValidateAnswers ==
  /\ pc = "answers"
  /\ LET diag == validate_question_answers(content_objects, At(groups, gi))
     IN IF diag # OK
        THEN pc' = "failed" /\ result' = Failed(diag, gi) /\ UNCHANGED gi
        ELSE /\ gi' = gi + 1
             /\ pc' = IF gi + 1 < Len(groups) THEN "answers" ELSE "passed"
             /\ UNCHANGED result
  /\ stages' = stages \cup {"validate_question_answers"}
  /\ UNCHANGED <<nFiles, fileNo, doc, json_objects, qsi_index, content_objects,
                 groups>>

Next ==
  \/ NextFile
  \/ ReadParse
  \/ DeriveQsi
  \/ Sanitize
  \/ ValidateIndicators
  \/ DeriveGroups
  \/ ValidateAnswers

Spec == Init /\ [][Next]_vars

\* The check of a collection of lesson files.
InitFiles == \E n \in 0..MaxFiles : Started(n)

SpecFiles == InitFiles /\ [][Next]_vars

\* The check of one question: a lesson whose quiz section holds one question
\* with the given options, read and parsed, and then checked.
InitRules ==
  /\ pc = "derive_qsi"
  /\ nFiles = 1
  /\ fileNo = 1
  /\ \E opts \in OptionSeqs :
       /\ doc = QuizDoc(opts)
       /\ json_objects = DumpJSON(QuizDoc(opts))
  /\ qsi_index = None
  /\ content_objects = <<>>
  /\ groups = <<>>
  /\ gi = 0
  /\ result = NoResult
  /\ stages = {"parse"}

NextRules ==
  \/ DeriveQsi
  \/ Sanitize
  \/ ValidateIndicators
  \/ DeriveGroups
  \/ ValidateAnswers
  \/ NextFile

SpecRules == InitRules /\ [][NextRules]_vars

\* ------------------------------------------------ what the lesson says
\* The quiz markup read off the document itself (its blocks), without the
\* dumped list or any operator of the check.
MarkersIn(b) ==
  IF b.t \in {"paragraph", "heading"}
  THEN Cardinality({k \in 1..Len(b.lits) : b.lits[k] = QUESTION_SECTION_INDICATOR})
  ELSE 0

RECURSIVE MarkerCount(_)
MarkerCount(d) == IF d = <<>> THEN 0 ELSE MarkersIn(Head(d)) + MarkerCount(Tail(d))

\* The blocks after the (last) block that holds a marker.
SectionOf(d) ==
  LET k == CHOOSE j \in 1..Len(d) :
             /\ MarkersIn(d[j]) > 0
             /\ \A i \in (j + 1)..Len(d) : MarkersIn(d[i]) = 0
  IN SubSeq(d, k + 1, Len(d))

\* The position of the first heading of a sequence of blocks, one past its
\* end when it has none.
FirstHeading(bs) ==
  IF \E k \in 1..Len(bs) : bs[k].t = "heading"
  THEN CHOOSE k \in 1..Len(bs) :
         bs[k].t = "heading" /\ \A i \in 1..(k - 1) : bs[i].t # "heading"
  ELSE Len(bs) + 1

\* The questions of a quiz section, in order of appearance: the blocks between
\* one heading and the next.
RECURSIVE QuestionsOf(_)
QuestionsOf(sec) ==
  IF FirstHeading(sec) > Len(sec) THEN <<>>
  ELSE LET rest == SubSeq(sec, FirstHeading(sec) + 1, Len(sec))
           n == FirstHeading(rest)
       IN <<SubSeq(rest, 1, n - 1)>> \o QuestionsOf(SubSeq(rest, n, Len(rest)))

HasOptionList(body) == \E k \in 1..Len(body) : body[k].t = "list"

RECURSIVE BoxesToOptions(_, _)
BoxesToOptions(bullet, boxes) ==
  IF boxes = <<>> THEN <<>>
  ELSE <<[bullet |-> bullet, box |-> Head(boxes)]>>
       \o BoxesToOptions(bullet, Tail(boxes))

\* The answer lines of a question, in order.
RECURSIVE OptionsOf(_)
OptionsOf(body) ==
  IF body = <<>> THEN <<>>
  ELSE (IF Head(body).t = "list"
        THEN BoxesToOptions(Head(body).bullet, Head(body).boxes) ELSE <<>>)
       \o OptionsOf(Tail(body))

NumOptions(opts, bullet, boxes) ==
  Cardinality({k \in 1..Len(opts) : opts[k].bullet = bullet /\ opts[k].box \in boxes})

SingleTotal(opts) == NumOptions(opts, "-", {" ", "x", "X"})
SingleChecked(opts) == NumOptions(opts, "-", {"x", "X"})
MultiTotal(opts) == NumOptions(opts, "*", {" ", "x", "X"})
MultiChecked(opts) == NumOptions(opts, "*", {"x", "X"})

\* The five rules of a question, by number.
RuleViolated(k, opts) ==
  CASE k = 1 -> SingleTotal(opts) > 0 /\ MultiTotal(opts) > 0
    [] k = 2 -> SingleTotal(opts) = 0 /\ MultiTotal(opts) = 0
    [] k = 3 -> SingleChecked(opts) > 1
    [] k = 4 -> SingleTotal(opts) > 0 /\ SingleChecked(opts) = 0
    [] k = 5 -> MultiTotal(opts) > 0 /\ MultiChecked(opts) = 0

RuleDiag(k) ==
  CASE k = 1 -> BOTH_KINDS
    [] k = 2 -> NO_OPTIONS
    [] k = 3 -> MULTIPLE_CHECKED
    [] k = 4 -> NONE_CHECKED_SINGLE
    [] k = 5 -> NONE_CHECKED_MULTI

ViolatedRules(opts) == {k \in 1..5 : RuleViolated(k, opts)}

\* The diagnostic of the lowest-numbered violated rule, OK when there is none.
LowestRuleDiag(opts) ==
  IF ViolatedRules(opts) = {} THEN OK
  ELSE RuleDiag(CHOOSE k \in ViolatedRules(opts) : \A j \in ViolatedRules(opts) : k <= j)

WellFormedSingle(opts) ==
  SingleChecked(opts) = 1 /\ MultiTotal(opts) = 0

WellFormedMulti(opts) ==
  MultiChecked(opts) >= 1 /\ SingleTotal(opts) = 0

\* A file is loaded; its check has ended (one way or the other); its quiz
\* section has been handed to validate_question_section_content.
Loaded == pc \notin {"start", "read", "done"}
FileChecked == pc \in {"passed", "failed"}
SectionValidated == "remove_code_blocks" \in stages

\* ------------------------------------------------ the claims
\* C1: whatever the position of the marker (the first element of the parsed
\* document included), the content after the marker is validated: a lesson
\* with one marker and, after it, a question whose '-' options are all
\* unchecked fails its check.
C1_SectionAfterMarkerValidated ==
  (/\ FileChecked
   /\ MarkerCount(doc) = 1
   /\ \E k \in 1..Len(QuestionsOf(SectionOf(doc))) :
        LET opts == OptionsOf(QuestionsOf(SectionOf(doc))[k])
        IN SingleTotal(opts) > 0 /\ SingleChecked(opts) = 0)
  => pc = "failed"

\* C2: a lesson in which the marker occurs nowhere passes, and none of the
\* stages after the search for the marker is run on it.
C2_NoMarkerPassesUnparsed ==
  (Loaded /\ MarkerCount(doc) = 0)
  => /\ pc \in {"derive_qsi", "passed"}
     /\ stages \subseteq {"parse", "derive_qsi"}
     /\ result = NoResult

C2_Witness ==
  /\ pc = "passed"
  /\ MarkerCount(doc) = 0
  /\ "derive_qsi" \in stages
  /\ \E k \in 1..Len(doc) : doc[k].t = "heading"
  /\ \E k \in 1..Len(doc) : doc[k].t = "list" /\ doc[k].boxes = <<" ">>

\* C3: the check of a question reports the diagnostic of the lowest-numbered
\* violated rule among the five rules (1 both kinds, 2 no options, 3 several
\* single options checked, 4 single options and none checked, 5 multi options
\* and none checked), and passes when no rule is violated; so a question
\* with a checked '-' and a checked '*' option fails with the 'both' diagnostic.
C3_LowestViolatedRuleReported ==
  FileChecked =>
    LET opts == OptionsOf(QuestionsOf(SectionOf(doc))[1])
    IN /\ "validate_question_answers" \in stages
       /\ IF LowestRuleDiag(opts) = OK THEN pc = "passed"
          ELSE pc = "failed" /\ result = Failed(LowestRuleDiag(opts), 0)

C3_Witness ==
  /\ pc = "failed"
  /\ result.diag = BOTH_KINDS
  /\ LET opts == OptionsOf(QuestionsOf(SectionOf(doc))[1])
     IN SingleChecked(opts) > 1 /\ MultiChecked(opts) > 0

\* C4: the check of a question passes if and only if the question is a
\* well-formed single-answer question (exactly one checked '-' option, no '*'
\* option) or a well-formed multi-answer question (one or more checked '*'
\* options, no '-' option).
C4_PassesIffWellFormed ==
  FileChecked =>
    LET opts == OptionsOf(QuestionsOf(SectionOf(doc))[1])
    IN (pc = "passed") <=> (WellFormedSingle(opts) \/ WellFormedMulti(opts))

C4_Witness ==
  /\ pc = "passed"
  /\ "validate_question_answers" \in stages
  /\ LET opts == OptionsOf(QuestionsOf(SectionOf(doc))[1])
     IN MultiChecked(opts) = 2 /\ MultiTotal(opts) = 3

\* C5: a lesson in which the marker occurs more than once fails with the
\* 'multiple question section indicators' diagnostic, wherever the markers
\* are; no quiz section ever starts at a second marker.
C5_SeveralMarkersFail ==
  (Loaded /\ pc # "derive_qsi" /\ MarkerCount(doc) > 1)
  => pc = "failed" /\ result.diag = MULTIPLE_INDICATORS

\* C6: a quiz section with an odd number of code fences (a fence left open)
\* fails with the unmatched-code-fence diagnostic.
C6_OddFencesFail ==
  (/\ FileChecked
   /\ SectionValidated
   /\ \E k \in 1..Len(SectionOf(doc)) :
        SectionOf(doc)[k].t = "code_block" /\ ~SectionOf(doc)[k].closed)
  => pc = "failed" /\ result.diag = "Unmatched code snippet indicator"

\* C7: a quiz section with a heading of two or more '#' fails with the
\* 'invalid question indication (multiple '#')' diagnostic.
C7_DeepHeadingFails ==
  (/\ FileChecked
   /\ SectionValidated
   /\ \E k \in 1..Len(SectionOf(doc)) :
        SectionOf(doc)[k].t = "heading" /\ SectionOf(doc)[k].level >= 2)
  => pc = "failed" /\ result.diag = INVALID_INDICATION

\* C8: in a run over several lesson files a failure in one file does not keep
\* the others from being checked: when the run is over, every file has been
\* checked.
C8_EveryFileChecked ==
  pc \in {"failed", "done"} => fileNo = nFiles

\* The position (from 0) of the first question that lacks an answer list or
\* violates a rule; None when every question is well formed.
FirstMalformed(qs) ==
  LET bad == {k \in 1..Len(qs) :
                ~HasOptionList(qs[k]) \/ LowestRuleDiag(OptionsOf(qs[k])) # OK}
  IN IF bad = {} THEN None ELSE (CHOOSE k \in bad : \A j \in bad : k <= j) - 1

FirstWithoutOptions(qs) ==
  LET bad == {k \in 1..Len(qs) : ~HasOptionList(qs[k])}
  IN IF bad = {} THEN None ELSE (CHOOSE k \in bad : \A j \in bad : k <= j) - 1

C10_EmptyQuizSectionFails ==
  (/\ FileChecked
   /\ SectionValidated
   /\ QuestionsOf(SectionOf(doc)) = <<>>)
  => pc = "failed"

====
